---- MODULE Spec2Model ----
(***************************************************************************)
(* Model of torchfem/base.py: the FEM base class.  The index builder       *)
(* (__init__), the element integrator (integrate), the global assembler    *)
(* (assemble_stiffness, assemble_force) and the Newton-Raphson driver      *)
(* (solve, k0).  Tensors are 0-based arrays, modelled as functions over    *)
(* 0..len-1; node-by-dimension tensors are kept ravelled (one entry per    *)
(* DOF), as solve itself uses them.                                        *)
(***************************************************************************)
EXTENDS Integers, Sequences, FiniteSets, TLC

VARIABLES
    \* ---- fields of the FEM object
    n_nod, n_dim, elements,     \* mesh: node count, dimension, connectivity
    idx, indices,               \* local-to-global table and (row, col) pair-list
    forces, displacements, constraints, ext_strain,
    n_state,                    \* material.n_state
    n_int,                      \* number of quadrature points of etype
    detJ,                       \* det J per quadrature point and element (fixed by nodes and etype)
    K,                          \* self.K, the cached global stiffness
    \* ---- arguments of the call in progress
    increments, max_iter, tol,  \* solve(increments, max_iter, tol)
    k, con,                     \* element blocks and constrained DOFs (solve locals, assemble_stiffness arguments)
    \* ---- locals of solve
    epsilon, sigma, state, f, u, du, n, i,
    F_int, residual, epsilon_new, sigma_new, state_new, res_norm,
    \* ---- control
    pc, fault, ret,
    \* ---- observation of the run (history variables)
    lastPass,                   \* the arguments and course of the latest Integrator pass
    passes, accCount, asmCount, solveCalls,
    asmAt, asmSkipped, solvedWith, iters, conv, zeroF, commitPass

vars == << n_nod, n_dim, elements, idx, indices, forces, displacements, constraints,
           ext_strain, n_state, n_int, detJ, K, increments, max_iter, tol, k, con,
           epsilon, sigma, state, f, u, du, n, i, F_int, residual, epsilon_new,
           sigma_new, state_new, res_norm, pc, fault, ret, lastPass, passes, accCount, asmCount,
           solveCalls, asmAt, asmSkipped, solvedWith, iters, conv, zeroF, commitPass >>

\* ------------------------------------------------------------------ bounds
MaxK == 1          \* element stiffness entries of a direct assemble call: 0..MaxK
MaxLoad == 2       \* load factors 0..MaxLoad, hence at most MaxLoad increments
MaxIter == 2       \* max_iter: 0..MaxIter

\* ------------------------------------------------------------------ helpers
Rng(len) == 0 .. (len - 1)
Arr(s) == [p \in Rng(Len(s)) |-> s[p + 1]]
Size(a) == Cardinality(DOMAIN a)
Abs(x) == IF x < 0 THEN -x ELSE x
MaxOf(S) == CHOOSE x \in S : \A y \in S : y <= x

RECURSIVE SumOver(_, _)
SumOver(S, a) ==
    IF S = {} THEN 0
    ELSE LET p == CHOOSE q \in S : TRUE IN a[p] + SumOver(S \ {p}, a)

\* torch.empty(0), and the number of entries of a (dense or sparse) tensor
Empty == [size |-> << 0 >>]
numel(t) == IF Len(t.size) = 1 THEN t.size[1] ELSE t.size[1] * t.size[2]
Unbound == << >>            \* a local not assigned yet

\* ------------------------------------------------------------------ problem size
n_dofs == n_nod * n_dim
n_elem == Size(elements)
N_nod == Size(elements[0])                 \* etype.nodes
Dofs == Rng(n_dofs)
Elems == Rng(n_elem)
Local == Rng(n_dim * N_nod)
Quads == Rng(n_int)

\* ------------------------------------------------------------------ Index Builder
\* idx[e, a*D + d] = D * elements[e, a] + d
BuildIdx(els, D) ==
    [e \in DOMAIN els |->
        [l \in Rng(D * Size(els[0])) |-> D * els[e][l \div D] + (l % D)]]

\* indices = stack([idx1, idx2]).reshape(2, -1), with idx1[e,i,j] = idx[e,j]
\* (unsqueeze(1), expanded along axis 1) and idx2[e,i,j] = idx[e,i] (unsqueeze(-1),
\* expanded along axis 2).  Flat position p = e*m*m + i*m + j.
BuildIndices(ix) ==
    LET m == Size(ix[0])
        L == Size(ix) * m * m
    IN << [p \in Rng(L) |-> ix[p \div (m * m)][p % m]],
          [p \in Rng(L) |-> ix[p \div (m * m)][(p \div m) % m]] >>

\* ------------------------------------------------------------------ Global Assembler
\* k.ravel(): row-major flattening of the (n_elem, m, m) blocks
Ravel(kk) ==
    LET m == Size(kk[0])
    IN [p \in Rng(Size(kk) * m * m) |-> kk[p \div (m * m)][(p \div m) % m][p % m]]

\* length of con_mask: int(indices[0].max()) + 1
ConMaskLen == MaxOf({indices[1][p] : p \in DOMAIN indices[1]}) + 1

\* torch.sparse_coo_tensor(...).coalesce() of the kept (masked) entries and one
\* unit diagonal entry per constrained DOF: entries at the same (row, col) are summed
Coalesce(values, kept, cn) ==
    [raised |-> FALSE, size |-> << n_dofs, n_dofs >>,
     val |-> [rc \in Dofs \X Dofs |->
                SumOver({p \in kept : indices[1][p] = rc[1] /\ indices[2][p] = rc[2]}, values)
                + (IF rc[1] = rc[2] /\ rc[1] \in cn THEN 1 ELSE 0)]]

\* The coalesced sparse matrix, read as a dense n_dofs x n_dofs table; raised
\* (an IndexError) when con_mask[con] = True indexes past the end of con_mask.
assemble_stiffness(kk, cn) ==
    IF \E c \in cn : c >= ConMaskLen THEN [raised |-> TRUE]
    ELSE Coalesce(Ravel(kk),
                  {p \in DOMAIN indices[1] : ~(indices[1][p] \in cn \/ indices[2][p] \in cn)},
                  cn)

\* F.index_add_(0, idx.ravel(), f.ravel())
assemble_force(ff) ==
    [g \in Dofs |->
        SumOver({el \in Elems \X Local : idx[el[1]][el[2]] = g},
                [el \in Elems \X Local |-> ff[el[1]][el[2]]])]

\* ------------------------------------------------------------------ collaborators
\* material.step returns (eps_new, sig_new, sta_new, ddsdde) per element; its
\* outcome is an input of the pass: a stress value and a tangent, here the same at
\* every quadrature point and element of one pass (a homogeneous field).
TanVals == {1, 2}
SigVals == {0, 1, 2}
MatOut == [sig : SigVals, tan : TanVals]
Resps == {[q \in Quads |-> [e \in Elems |-> o]] : o \in MatOut}

\* etype.iweights()
iweights == [q \in Quads |-> 1]

\* compute_f(detJ, D, S): element force of a two-force member, -S on the first
\* node's DOFs and +S on the others, scaled by detJ.
compute_f(dJ, S) ==
    [e \in Elems |-> [l \in Local |-> IF l < n_dim THEN -(dJ[e] * S[e]) ELSE dJ[e] * S[e]]]

\* compute_k(detJ, DCD): element block from the tangent t, scaled by detJ:
\* t on the diagonal, -1 above it and -t below it (symmetric only for t = 1).
compute_k(dJ, C) ==
    [e \in Elems |-> [a \in Local |-> [b \in Local |->
        dJ[e] * (IF a = b THEN C[e] ELSE IF a < b THEN -1 ELSE -C[e])]]]

\* ------------------------------------------------------------------ Element Integrator
ZeroF == [e \in Elems |-> [l \in Local |-> 0]]
ZeroK == [e \in Elems |-> [a \in Local |-> [b \in Local |-> 0]]]
ZeroPoint == [e \in Elems |-> 0]                              \* one quadrature point of eps / sig
ZeroStatePoint == [e \in Elems |-> [j \in Rng(n_state) |-> 0]]
ZeroField == [q \in Quads |-> ZeroPoint]
ZeroStateField == [q \in Quads |-> ZeroStatePoint]

\* line 121: the stiffness is accumulated only when no matrix is cached or the
\* material carries internal state
AccumulateK == numel(K) = 0 \/ ~(n_state = 0)

\* a weaker test, which a zero determinant passes (contrast for C5)
NegativeOnly(q) == \E e \in Elems : detJ[q][e] < 0

\* line 106: torch.any(detJ <= 0.0)
BadJacobian(q) == \E e \in Elems : detJ[q][e] <= 0

\* lines 113-123 at quadrature point q: the outcome of the material step is
\* stored, the force is accumulated and, under the reuse condition, the stiffness
PointAccumulate(q, acc, inp, sg, cf, ck, w) ==
    [acc EXCEPT
       !.eps_new[q] = sg,
       !.sig_new[q] = sg,
       !.sta_new[q] = [e \in Elems |-> [j \in Rng(n_state) |-> sg[e]]],
       !.f = [e \in Elems |-> [l \in Local |-> acc.f[e][l] + w * cf[e][l]]],
       !.k = IF AccumulateK
             THEN [e \in Elems |-> [a \in Local |-> [b \in Local |->
                      acc.k[e][a][b] + w * ck[e][a][b]]]]
             ELSE acc.k,
       !.accumulated = @ \/ AccumulateK,
       !.steps = @ \cup {[q |-> q, du |-> inp.du, de0 |-> inp.de0,
                          eps |-> inp.eps_old[q], sig |-> inp.sig_old[q],
                          sta |-> inp.sta_old[q]]}]

\* lines 113-115: material.step at point q returns stress sg and tangent tn
PointStep(q, acc, inp, sg, tn) ==
    PointAccumulate(q, acc, inp, sg, compute_f(detJ[q], sg), compute_k(detJ[q], tn),
                    iweights[q])

\* The loop over quadrature points from point q on; acc holds f, k, the new fields,
\* the material steps made so far and the point at which the pass raised (-1: none).
RECURSIVE IntegrateFrom(_, _, _, _)
IntegrateFrom(q, acc, inp, resp) ==
    IF q = n_int THEN acc
    ELSE IF BadJacobian(q) THEN [acc EXCEPT !.raisedAt = q]
    ELSE IntegrateFrom(q + 1,
            PointStep(q, acc, inp, [e \in Elems |-> resp[q][e].sig],
                      [e \in Elems |-> resp[q][e].tan]),
            inp, resp)

integrate(eps_old, sig_old, sta_old, duArg, de0, resp) ==
    IntegrateFrom(0,
        [k |-> ZeroK, f |-> ZeroF,
         eps_new |-> ZeroField, sig_new |-> ZeroField, sta_new |-> ZeroStateField,
         raisedAt |-> -1, accumulated |-> FALSE, steps |-> {}],
        [eps_old |-> eps_old, sig_old |-> sig_old, sta_old |-> sta_old,
         \* line 85: the displacement increment gathered per element
         du |-> [e \in Elems |-> [l \in Local |-> duArg[idx[e][l]]]],
         de0 |-> de0],
        resp)

\* ------------------------------------------------------------------ Linear Solve
\* entries of the corrections considered
XVals == {-2, -1, 0, 1, 2}

\* entry `row` of K x, summed from column c on
RECURSIVE RowDot(_, _, _, _)
RowDot(Kmat, x, row, c) ==
    IF c = n_dofs THEN 0
    ELSE Kmat.val[<< row, c >>] * x[c] + RowDot(Kmat, x, row, c + 1)

\* The corrections x with K x = residual
Solutions(Kmat, r) ==
    {x \in [Dofs -> XVals] : \A row \in Dofs : RowDot(Kmat, x, row, 0) = r[row]}

\* sparse_solve(K, residual): the correction solving the system, as a set of at
\* most one vector; empty when the solver fails (a singular matrix, or no
\* solution among the corrections considered).
AtMostOne(S) == IF Cardinality(S) = 1 THEN S ELSE {}
sparse_solve(Kmat, r) == AtMostOne(Solutions(Kmat, r))

\* ------------------------------------------------------------------ Newton-Raphson Driver
N == Size(increments)                                        \* line 173
Con == {d \in Dofs : constraints[d]}                         \* line 176
inc(m) == increments[m] - increments[m - 1]                  \* line 194
F_ext(m) == [d \in Dofs |-> increments[m] * forces[d]]       \* line 197
\* the prescribed displacement scaled by the total load factor (contrast for C10)
TotalDU(m) == [d \in Dofs |-> increments[m] * displacements[d]]
DU(m) == [d \in Dofs |-> inc(m) * displacements[d]]          \* line 198
DE(m) == inc(m) * ext_strain                                 \* line 199

\* leaving the trial increment as the linear solve left it (contrast for C7)
KeepTrial(v, m) == v

\* line 203: du[con] = DU[con]
SetConstrained(v, m) == [d \in Dofs |-> IF d \in con THEN DU(m)[d] ELSE v[d]]

\* reassembling in every iteration whatever is cached (contrast for C6)
AlwaysAssemble == TRUE

\* line 212: reassemble only when no matrix is cached or the material has state
NeedAssemble == numel(K) = 0 \/ ~(n_state = 0)

\* lines 217-218
Residual(Fi, m) == [d \in Dofs |-> IF d \in con THEN 0 ELSE Fi[d] - F_ext(m)[d]]

\* line 219: residual.abs().max() / F_int.abs().max() in floating point, kept as
\* the pair (numerator, denominator): 0/0 is NaN, x/0 with x > 0 is +inf.
MaxAbs(v) == MaxOf({Abs(v[d]) : d \in DOMAIN v})
ResNorm(res, Fi) == [bound |-> TRUE, num |-> MaxAbs(res), den |-> MaxAbs(Fi)]
IsNaN(r) == r.num = 0 /\ r.den = 0
\* line 222: res_norm < tol (false for NaN and for +inf)
Converged(r, t) == r.den > 0 /\ r.num * t.den < t.num * r.den
\* line 228: res_norm > tol (false for NaN, true for +inf)
Diverged(r, t) == IF r.den = 0 THEN r.num > 0 ELSE r.num * t.den > t.num * r.den

\* One inner iteration up to the convergence test (lines 203-219), for the
\* material outcome resp.
PassResidual(du1, p, A, Fi, res) ==
    [du1 |-> du1, p |-> p, need |-> NeedAssemble, A |-> A, Fi |-> Fi, res |-> res,
     rn |-> ResNorm(res, Fi)]
PassForce(du1, p, A, Fi) == PassResidual(du1, p, A, Fi, Residual(Fi, n))
PassIntegrated(du1, p) ==
    PassForce(du1, p, IF NeedAssemble THEN assemble_stiffness(p.k, con) ELSE K,
              assemble_force(p.f))
PassTrial(du1, resp) ==
    PassIntegrated(du1,
        integrate(epsilon[n - 1], sigma[n - 1], state[n - 1], du1, DE(n), resp))
Pass(resp) == PassTrial(SetConstrained(du, n), resp)

AllZero(v) == \A d \in DOMAIN v : v[d] = 0
VecSub(a, b) == [d \in DOMAIN a |-> a[d] - b[d]]
VecAdd(a, b) == [d \in DOMAIN a |-> a[d] + b[d]]

\* ------------------------------------------------------------------ state groups
objVars == << n_nod, n_dim, elements, idx, indices, ext_strain, n_state, n_int, detJ >>
bcVars == << forces, displacements, constraints >>
argVars == << increments, max_iter, tol, con >>
histVars == << epsilon, sigma, state, f, u >>
newVars == << k, F_int, residual, epsilon_new, sigma_new, state_new, res_norm >>
asmObs == << asmCount, asmAt, asmSkipped >>
callObs == << lastPass, passes, accCount, asmCount, solveCalls, asmAt, asmSkipped,
              solvedWith, iters, conv, zeroF, commitPass >>

NoRet == [kind |-> "none"]
NoPass == [n |-> 0, i |-> 0]
NoResNorm == [bound |-> FALSE]

\* ------------------------------------------------------------------ inputs
\* meshes of two-node elements: [n_nod, n_dim, elements]
LineMesh == [n_nod |-> 2, n_dim |-> 1, elements |-> Arr(<< Arr(<< 0, 1 >>) >>)]
OrphanMesh == [n_nod |-> 3, n_dim |-> 1, elements |-> Arr(<< Arr(<< 0, 1 >>) >>)]
ChainMesh == [n_nod |-> 3, n_dim |-> 1,
              elements |-> Arr(<< Arr(<< 0, 1 >>), Arr(<< 1, 2 >>) >>)]
PlaneMesh == [n_nod |-> 2, n_dim |-> 2, elements |-> Arr(<< Arr(<< 1, 0 >>) >>)]
SolveMeshes == {LineMesh, OrphanMesh}
AsmMeshes == {LineMesh, OrphanMesh, ChainMesh, PlaneMesh}

Tols == {[num |-> 1, den |-> 2]}
ForceVals == {0, 1}
DispVals == {0, 1}
ExtVals == {0}
\* increasing sequences of at least two load factors
IncSeqs ==
    {s \in UNION {[Rng(L) -> 0 .. MaxLoad] : L \in 2 .. (MaxLoad + 1)} :
        \A a, b \in DOMAIN s : a < b => s[a] < s[b]}
\* geometries: every determinant positive, or one quadrature point with a zero
\* or negative determinant in some element
Geometries(nq, ne) ==
    {[q \in Rng(nq) |-> [e \in Rng(ne) |-> 1]]}
    \cup {[q \in Rng(nq) |-> [e \in Rng(ne) |-> IF q = qb /\ e = eb THEN v ELSE 1]] :
             qb \in Rng(nq), eb \in Rng(ne), v \in {-1, 0}}

\* element blocks with at most two nonzero entries
KInputs ==
    LET Pos == Elems \X Local \X Local
    IN {[e \in Elems |-> [a \in Local |-> [b \in Local |->
            (IF << e, a, b >> = p1 THEN v1 ELSE 0) + (IF << e, a, b >> = p2 THEN v2 ELSE 0)]]] :
          p1 \in Pos, p2 \in Pos, v1 \in 0 .. MaxK, v2 \in 0 .. MaxK}

\* ------------------------------------------------------------------ construction
\* __init__ for mesh m: sizes, zero loads, index tables
Construct(m) ==
    /\ n_nod = m.n_nod
    /\ n_dim = m.n_dim
    /\ elements = m.elements
    /\ idx = BuildIdx(elements, n_dim)
    /\ indices = BuildIndices(idx)
    /\ forces = [d \in Dofs |-> 0]
    /\ displacements = [d \in Dofs |-> 0]
    /\ constraints = [d \in Dofs |-> FALSE]
    /\ K = Empty             \* unset until k0 or solve assigns it, before any read

NoCall ==
    /\ increments = << >> /\ max_iter = 0 /\ tol = [num |-> 0, den |-> 1]
    /\ epsilon = Unbound /\ sigma = Unbound /\ state = Unbound /\ f = Unbound /\ u = Unbound
    /\ du = Unbound /\ n = 0 /\ i = 0
    /\ F_int = Unbound /\ residual = Unbound /\ epsilon_new = Unbound /\ sigma_new = Unbound /\ state_new = Unbound
    /\ res_norm = NoResNorm
    /\ fault = "none" /\ ret = NoRet
    /\ lastPass = NoPass /\ passes = 0 /\ accCount = 0 /\ asmCount = 0 /\ solveCalls = 0
    /\ asmAt = {} /\ asmSkipped = FALSE /\ solvedWith = {} /\ iters = << >> /\ conv = {}
    /\ zeroF = TRUE /\ commitPass = << >>

Init ==
    /\ \E m \in SolveMeshes : Construct(m)
    /\ ext_strain \in ExtVals
    /\ n_state \in {0, 1}
    /\ n_int \in {2}
    /\ detJ \in Geometries(n_int, n_elem)
    /\ NoCall
    /\ k = Unbound /\ con = {}
    /\ pc = "new"

\* the DOFs some element touches
Referenced == {idx[e][l] : e \in Elems, l \in Local}

\* The caller sets the boundary conditions before solving.  Forces at constrained
\* DOFs and prescribed displacements at free DOFs are never read by solve
\* (lines 203, 218), so they are left at zero; a node of no element is left free
\* or pinned, without load.
SetBoundary ==
    /\ pc = "new"
    /\ \E c \in [Dofs -> BOOLEAN], fo \in [Dofs -> ForceVals], di \in [Dofs -> DispVals] :
          /\ \A d \in Dofs : (c[d] => fo[d] = 0) /\ (~c[d] => di[d] = 0)
          /\ \A d \in Dofs \ Referenced : fo[d] = 0 /\ di[d] = 0
          /\ constraints' = c /\ forces' = fo /\ displacements' = di
    /\ pc' = "idle"
    /\ UNCHANGED << objVars, K, argVars, histVars, newVars, du, n, i, fault, ret, callObs >>

\* ------------------------------------------------------------------ k0
PassLog(p, m, j, duArg) ==
    [n |-> m, i |-> j, du |-> duArg, steps |-> p.steps, raisedAt |-> p.raisedAt,
     accumulated |-> p.accumulated, eps_new |-> p.eps_new, sig_new |-> p.sig_new,
     sta_new |-> p.sta_new, f |-> p.f]

\* lines 63-72, the pass raising: self.K is cleared, the Integrator raises
K0Raises ==
    /\ pc = "idle"
    /\ \E resp \in Resps :
          \E p \in {integrate(ZeroField, ZeroField, ZeroStateField, [d \in Dofs |-> 0], 0, resp)} :
             /\ p.raisedAt >= 0
             /\ lastPass' = PassLog(p, 0, 0, [d \in Dofs |-> 0])
             /\ accCount' = IF p.accumulated THEN 1 ELSE 0
    /\ K' = Empty
    /\ passes' = 1
    /\ pc' = "fault" /\ fault' = "NegativeJacobian"
    /\ UNCHANGED << objVars, bcVars, argVars, histVars, newVars, du, n, i, ret, asmObs,
                    solveCalls, solvedWith, iters, conv, zeroF, commitPass >>

\* lines 63-72, returning the element stiffness of one pass at zero strain
K0Returns ==
    /\ pc = "idle"
    /\ \E resp \in Resps :
          \E p \in {integrate(ZeroField, ZeroField, ZeroStateField, [d \in Dofs |-> 0], 0, resp)} :
             /\ p.raisedAt < 0
             /\ lastPass' = PassLog(p, 0, 0, [d \in Dofs |-> 0])
             /\ accCount' = IF p.accumulated THEN 1 ELSE 0
             /\ ret' = [kind |-> "k0", k |-> p.k]
    /\ K' = Empty
    /\ passes' = 1
    /\ pc' = "idle"
    /\ UNCHANGED << objVars, bcVars, argVars, histVars, newVars, du, n, i, fault, asmObs,
                    solveCalls, solvedWith, iters, conv, zeroF, commitPass >>

\* ------------------------------------------------------------------ solve
\* lines 172-189: entry of solve(increments, max_iter, tol) with verbose, return_intermediate
\* and aggregate_integration_points all False
CallSolve ==
    /\ pc = "idle"
    /\ \E s \in IncSeqs, mi \in 0 .. MaxIter, t \in Tols :
          /\ increments' = s /\ max_iter' = mi /\ tol' = t
          /\ epsilon' = [m \in DOMAIN s |-> ZeroField]
          /\ sigma' = [m \in DOMAIN s |-> ZeroField]
          /\ state' = [m \in DOMAIN s |-> ZeroStateField]
          /\ f' = [m \in DOMAIN s |-> [d \in Dofs |-> 0]]
          /\ u' = [m \in DOMAIN s |-> [d \in Dofs |-> 0]]
          /\ iters' = [m \in DOMAIN s |-> 0]
    /\ con' = Con
    /\ K' = Empty
    /\ du' = [d \in Dofs |-> 0]
    /\ n' = 1 /\ i' = 0
    /\ k' = Unbound /\ F_int' = Unbound /\ residual' = Unbound /\ epsilon_new' = Unbound /\ sigma_new' = Unbound
    /\ state_new' = Unbound /\ res_norm' = NoResNorm
    /\ ret' = NoRet
    /\ lastPass' = NoPass /\ passes' = 0 /\ accCount' = 0 /\ asmCount' = 0 /\ solveCalls' = 0
    /\ asmAt' = {} /\ asmSkipped' = FALSE /\ solvedWith' = {} /\ conv' = {} /\ zeroF' = TRUE
    /\ commitPass' = << >>
    /\ pc' = "loop"
    /\ UNCHANGED << objVars, bcVars, fault >>

\* lines 247-249: the increments are used up, the final fields are returned
Return ==
    /\ pc = "loop" /\ n >= N
    /\ ret' = [kind |-> "fields", u |-> u[N - 1], f |-> f[N - 1], sigma |-> sigma[N - 1],
               epsilon |-> epsilon[N - 1], state |-> state[N - 1]]
    /\ pc' = "returned"
    /\ UNCHANGED << objVars, bcVars, K, argVars, histVars, newVars, du, n, i, fault, callObs >>

\* the record of an Integrator pass of solve
PassMade(P) ==
    /\ lastPass' = PassLog(P.p, n, i, P.du1)
    /\ passes' = passes + 1
    /\ accCount' = accCount + (IF P.p.accumulated THEN 1 ELSE 0)
    /\ iters' = [iters EXCEPT ![n] = @ + 1]

\* lines 213-219 done: the matrix cached, the new fields, the internal force and res_norm
PassAssembled(P) ==
    /\ K' = P.A
    /\ asmCount' = asmCount + (IF P.need THEN 1 ELSE 0)
    /\ asmAt' = IF P.need THEN asmAt \cup {<< n, i >>} ELSE asmAt
    /\ asmSkipped' = (asmSkipped \/ (P.need /\ ~P.p.accumulated))
    /\ k' = P.p.k /\ F_int' = P.Fi /\ residual' = P.res
    /\ epsilon_new' = P.p.eps_new /\ sigma_new' = P.p.sig_new /\ state_new' = P.p.sta_new
    /\ res_norm' = P.rn
    /\ zeroF' = (zeroF /\ AllZero(P.Fi))

\* lines 202-208: the Integrator raises "Negative Jacobian"
IterNegativeJacobian(P) ==
    /\ P.p.raisedAt >= 0
    /\ PassMade(P) /\ du' = P.du1
    /\ pc' = "fault" /\ fault' = "NegativeJacobian"
    /\ UNCHANGED << K, newVars, i, asmObs, solveCalls, solvedWith, conv, zeroF >>

\* lines 202-213: assemble_stiffness raises on a constrained DOF beyond con_mask
IterIndexError(P) ==
    /\ P.p.raisedAt < 0
    /\ P.need /\ P.A.raised
    /\ PassMade(P) /\ du' = P.du1
    /\ k' = P.p.k /\ epsilon_new' = P.p.eps_new /\ sigma_new' = P.p.sig_new
    /\ state_new' = P.p.sta_new
    /\ pc' = "fault" /\ fault' = "IndexError"
    /\ UNCHANGED << K, F_int, residual, res_norm, i, asmObs, solveCalls, solvedWith, conv, zeroF >>

\* lines 202-223: res_norm < tol, the inner loop is left by break
IterConverged(P) ==
    /\ P.p.raisedAt < 0
    /\ ~(P.need /\ P.A.raised)
    /\ Converged(P.rn, tol)
    /\ PassMade(P) /\ du' = P.du1
    /\ PassAssembled(P)
    /\ conv' = conv \cup {n}
    /\ pc' = "after_loop"
    /\ UNCHANGED << i, fault, solveCalls, solvedWith >>

\* line 226: the linear solve of an iteration that reaches it (none otherwise)
Correction(P) ==
    IF P.p.raisedAt >= 0 \/ (P.need /\ P.A.raised) \/ Converged(P.rn, tol) THEN {}
    ELSE sparse_solve(P.A, P.res)

\* lines 202-226: not converged, the correction of the linear solve is subtracted
IterCorrect(P, X) ==
    /\ P.p.raisedAt < 0
    /\ ~(P.need /\ P.A.raised)
    /\ ~Converged(P.rn, tol)
    /\ \E x \in X : du' = VecSub(P.du1, x)
    /\ PassMade(P)
    /\ PassAssembled(P)
    /\ solvedWith' = solvedWith \cup {P.A}
    /\ solveCalls' = solveCalls + 1
    /\ i' = i + 1
    /\ UNCHANGED << pc, fault, conv >>

\* lines 202-226: the linear solve fails
IterSolverError(P, X) ==
    /\ P.p.raisedAt < 0
    /\ ~(P.need /\ P.A.raised)
    /\ ~Converged(P.rn, tol)
    /\ X = {}
    /\ PassMade(P) /\ du' = P.du1
    /\ PassAssembled(P)
    /\ solvedWith' = solvedWith \cup {P.A}
    /\ solveCalls' = solveCalls + 1
    /\ pc' = "fault" /\ fault' = "SolverError"
    /\ UNCHANGED << i, conv >>

\* lines 202-226: one inner iteration, for some outcome of the material step
Iterate ==
    /\ pc = "loop" /\ n < N /\ i < max_iter
    /\ \E resp \in Resps :
          \E P \in {Pass(resp)} :
             \/ IterNegativeJacobian(P)
             \/ IterIndexError(P)
             \/ IterConverged(P)
             \/ \E X \in {Correction(P)} : IterCorrect(P, X) \/ IterSolverError(P, X)
    /\ UNCHANGED << objVars, bcVars, argVars, histVars, n, ret, commitPass >>

\* line 202: range(max_iter) is used up
LoopExhausted ==
    /\ pc = "loop" /\ n < N /\ i >= max_iter
    /\ pc' = "after_loop"
    /\ UNCHANGED << objVars, bcVars, K, argVars, histVars, newVars, du, n, i, fault, ret, callObs >>

\* line 228 reads res_norm, which no iteration has assigned
RaiseUnbound ==
    /\ pc = "after_loop" /\ ~res_norm.bound
    /\ pc' = "fault" /\ fault' = "UnboundLocalError"
    /\ UNCHANGED << objVars, bcVars, K, argVars, histVars, newVars, du, n, i, ret, callObs >>

\* lines 228-229
RaiseNotConverged ==
    /\ pc = "after_loop" /\ res_norm.bound /\ Diverged(res_norm, tol)
    /\ pc' = "fault" /\ fault' = "NotConverged"
    /\ UNCHANGED << objVars, bcVars, K, argVars, histVars, newVars, du, n, i, ret, callObs >>

\* lines 231-236: the increment is committed
Commit ==
    /\ pc = "after_loop" /\ res_norm.bound /\ ~Diverged(res_norm, tol)
    /\ epsilon' = [epsilon EXCEPT ![n] = epsilon_new]
    /\ sigma' = [sigma EXCEPT ![n] = sigma_new]
    /\ state' = [state EXCEPT ![n] = state_new]
    /\ f' = [f EXCEPT ![n] = F_int]
    /\ u' = [u EXCEPT ![n] = VecAdd(u[n - 1], du)]
    /\ commitPass' = [m \in (DOMAIN commitPass) \cup {n} |->
                        IF m = n THEN lastPass ELSE commitPass[m]]
    /\ n' = n + 1 /\ i' = 0
    /\ pc' = "loop"
    /\ UNCHANGED << objVars, bcVars, K, argVars, newVars, du, fault, ret, lastPass, passes,
                    accCount, asmCount, solveCalls, asmAt, asmSkipped, solvedWith, iters,
                    conv, zeroF >>

Next ==
    \/ SetBoundary
    \/ K0Raises
    \/ K0Returns
    \/ CallSolve
    \/ Return
    \/ Iterate
    \/ LoopExhausted
    \/ RaiseUnbound
    \/ RaiseNotConverged
    \/ Commit

Spec == Init /\ [][Next]_vars

\* ------------------------------------------------------------------ assemble_stiffness alone
\* A direct call assemble_stiffness(k, con) on a constructed object, for element
\* blocks k and a set con of constrained DOFs of the DOF space.
InitAsm ==
    /\ \E m \in AsmMeshes : Construct(m)
    /\ ext_strain = 0 /\ n_state = 0 /\ n_int = 1
    /\ detJ = [q \in Quads |-> [e \in Elems |-> 1]]
    /\ NoCall
    /\ k \in KInputs
    /\ con \in SUBSET Dofs
    /\ pc = "asm_call"

\* lines 127-148, returning the matrix
AssembleReturns ==
    /\ pc = "asm_call"
    /\ \E A \in {assemble_stiffness(k, con)} :
          /\ ~A.raised
          /\ ret' = [kind |-> "K", K |-> A]
    /\ pc' = "asm_done"
    /\ UNCHANGED << objVars, bcVars, K, argVars, k, histVars, F_int, residual, epsilon_new,
                    sigma_new, state_new, res_norm, du, n, i, fault, callObs >>

\* lines 138-139 raising
AssembleRaises ==
    /\ pc = "asm_call"
    /\ assemble_stiffness(k, con).raised
    /\ pc' = "fault" /\ fault' = "IndexError"
    /\ UNCHANGED << objVars, bcVars, K, argVars, k, histVars, F_int, residual, epsilon_new,
                    sigma_new, state_new, res_norm, du, n, i, ret, callObs >>

NextAsm == AssembleReturns \/ AssembleRaises

SpecAsm == InitAsm /\ [][NextAsm]_vars

\* ================================================================== properties
\* ------------------------------------------------------------------ assembler (under SpecAsm)
\* the matrix a finished assemble_stiffness call returned
Returned == ret.K

\* C1: for every mesh and every set con of constrained DOFs of the DOF space
\* (DOFs of unreferenced nodes included), assemble_stiffness returns an
\* n_dofs x n_dofs matrix in which every constrained DOF c has K[c,c] = 1 and
\* every other entry of row c and of column c equal to 0.
C1_ConstrainedRowsAreIdentity ==
    pc \in {"asm_done", "fault"} =>
        /\ pc = "asm_done"
        /\ Returned.size = << n_dofs, n_dofs >>
        /\ \A c \in con : \A d \in Dofs :
              /\ Returned.val[<< c, d >>] = (IF d = c THEN 1 ELSE 0)
              /\ Returned.val[<< d, c >>] = (IF d = c THEN 1 ELSE 0)

\* the sum of k[e,i,j] over all (e,i,j) with idx[e,i] = r and idx[e,j] = c
BlockSum(r, c) ==
    LET Pos == Elems \X Local \X Local
    IN SumOver({t \in Pos : idx[t[1]][t[2]] = r /\ idx[t[1]][t[3]] = c},
               [t \in Pos |-> k[t[1]][t[2]][t[3]]])

\* C2: the pair-list is ordered as the row-major flattening of the blocks, so
\* that for every unconstrained global pair (r, c) the assembled K[r,c] is the
\* sum of k[e,i,j] over all (e,i,j) with idx[e,i] = r and idx[e,j] = c, no
\* local block transposed.
C2_EntriesAreBlockSums ==
    pc = "asm_done" =>
        \A r, c \in Dofs \ con : Returned.val[<< r, c >>] = BlockSum(r, c)

\* ------------------------------------------------------------------ driver (under Spec)
\* a solve call has been entered
InSolve == N > 0
\* the increments committed so far
Committed == DOMAIN commitPass
MinOf(S) == CHOOSE x \in S : \A y \in S : x <= y
\* the quadrature points at which some element has a determinant <= 0
BadPoints == {q \in Quads : \E e \in Elems : ~(detJ[q][e] > 0)}

\* C3: if no inner iteration of increment n satisfies res_norm < tol, solve
\* raises the "did not converge" fault, commits nothing for n and returns no
\* fields; also for res_norm = tol, for a NaN ratio and for max_iter = 0.
C3_ExhaustionRaises ==
    InSolve =>
        /\ ~(fault = "UnboundLocalError")
        /\ \A m \in Committed : m \in conv
        /\ ret.kind = "fields" => \A m \in 1 .. (N - 1) : m \in conv

\* C4: with all forces, prescribed displacements and the external strain zero
\* (internal force and residual zero in every iteration), on a mesh whose
\* determinants are positive and whose nodes are all referenced, solve makes
\* exactly one inner iteration per increment, never calls the linear solver,
\* raises no fault and returns zero displacement.
C4_ZeroLoadOneIteration ==
    (/\ InSolve /\ max_iter >= 1
     /\ AllZero(forces) /\ AllZero(displacements) /\ ext_strain = 0
     /\ zeroF
     /\ BadPoints = {} /\ Referenced = Dofs)
    =>
        /\ fault = "none"
        /\ solveCalls = 0
        /\ \A m \in Committed : iters[m] = 1 /\ AllZero(u[m])
        /\ ret.kind = "fields" => AllZero(ret.u)

\* C5: a determinant <= 0 at a quadrature point makes the pass raise "Negative
\* Jacobian" before the material step of that point; the solve or k0 call ends
\* with that fault in its first pass, without assembly, linear solve or result.
C5_GeometryFault ==
    /\ (pc \in {"idle", "loop", "after_loop", "returned", "fault"} /\ passes >= 1) =>
          /\ lastPass.raisedAt = (IF BadPoints = {} THEN -1 ELSE MinOf(BadPoints))
          /\ {st.q : st \in lastPass.steps} = {q \in Quads : \A b \in BadPoints : q < b}
          /\ ~(BadPoints = {}) =>
                /\ pc = "fault" /\ fault = "NegativeJacobian"
                /\ passes = 1 /\ asmCount = 0 /\ solveCalls = 0
                /\ K = Empty /\ ret = NoRet
    /\ fault = "NegativeJacobian" => ~(BadPoints = {}) /\ passes = 1

\* C5 happens: a solve call raised at the second quadrature point, after the
\* material step of the first
C5_Witness ==
    /\ InSolve /\ fault = "NegativeJacobian"
    /\ lastPass.raisedAt = 1 /\ Cardinality(lastPass.steps) = 1

\* C6: with n_state = 0 the stiffness is accumulated and assembled exactly once,
\* in the first iteration of the first increment, and every linear solve gets
\* that cached matrix; with n_state > 0 every iteration accumulates and
\* assembles.  No skipped (all-zero) block is ever assembled or solved with.
C6_StiffnessReuse ==
    InSolve =>
        /\ ~asmSkipped
        /\ \A A \in solvedWith : numel(A) > 0
        /\ n_state = 0 =>
              /\ accCount <= 1 /\ asmCount <= 1
              /\ asmAt \subseteq {<< 1, 0 >>}
              /\ solvedWith \subseteq {K}
              /\ res_norm.bound => accCount = 1 /\ asmCount = 1
        /\ n_state > 0 =>
              /\ ~(fault = "NegativeJacobian") => accCount = passes
              /\ asmCount = passes - (IF fault \in {"NegativeJacobian", "IndexError"}
                                      THEN 1 ELSE 0)

\* C6 happens: a stateless material, one assembly, linear solves in two increments
C6_Witness ==
    /\ InSolve /\ n_state = 0 /\ asmCount = 1
    /\ solveCalls >= 2 /\ passes >= 3 /\ lastPass.n = 2

\* C7: at every Integrator call of increment n each constrained DOF of the trial
\* increment equals (increments[n] - increments[n-1]) * displacements, whatever
\* the earlier linear solves did.
C7_ConstrainedAtTarget ==
    (InSolve /\ passes >= 1) =>
        \A c \in con :
            lastPass.du[c]
              = (increments[lastPass.n] - increments[lastPass.n - 1]) * displacements[c]

\* C7 happens: a pass after a linear solve moved a free DOF, with a nonzero
\* prescribed displacement
C7_Witness ==
    /\ InSolve /\ passes >= 2 /\ solveCalls >= 1 /\ lastPass.i >= 1
    /\ \E c \in con : ~(displacements[c] = 0)
    /\ \E d \in Dofs \ con : ~(lastPass.du[d] = 0)

\* C8: every material step of increment n gets the history committed for n-1
\* (zero for increment 0); the entry of n is written once, after its inner loop
\* ended without fault; earlier entries are never modified; no non-converged
\* trial state feeds a later material step.
C8_HistoryDiscipline ==
    InSolve =>
        /\ epsilon[0] = ZeroField /\ sigma[0] = ZeroField /\ state[0] = ZeroStateField
        /\ passes >= 1 =>
              \A st \in lastPass.steps :
                  /\ st.eps = epsilon[lastPass.n - 1][st.q]
                  /\ st.sig = sigma[lastPass.n - 1][st.q]
                  /\ st.sta = state[lastPass.n - 1][st.q]
        /\ \A m \in DOMAIN epsilon \ (Committed \cup {0}) :
              epsilon[m] = ZeroField /\ sigma[m] = ZeroField /\ state[m] = ZeroStateField
        /\ \A m \in Committed :
              /\ epsilon[m] = commitPass[m].eps_new
              /\ sigma[m] = commitPass[m].sig_new
              /\ state[m] = commitPass[m].sta_new
        /\ (passes >= 1 /\ lastPass.n >= 2 /\ ~(lastPass.steps = {})) =>
              (lastPass.n - 1) \in conv

\* C9: at the commit of increment n, u[n] - u[n-1] is the trial increment that
\* was passed to the Integrator pass which produced the committed strain,
\* stress, state and internal force; no correction lies in between.
C9_CommitConsistency ==
    \A m \in Committed :
        /\ epsilon[m] = commitPass[m].eps_new
        /\ sigma[m] = commitPass[m].sig_new
        /\ state[m] = commitPass[m].sta_new
        /\ f[m] = assemble_force(commitPass[m].f)
        /\ VecSub(u[m], u[m - 1]) = commitPass[m].du

\* C10: the force target of increment n is increments[n] * forces, the
\* displacement target (increments[n] - increments[n-1]) * displacements, so
\* after each committed increment n the total displacement of a constrained DOF
\* is (increments[n] - increments[0]) * displacements.
C10_LoadScaling ==
    InSolve =>
        /\ \A m \in Committed : \A c \in con :
              u[m][c] = (increments[m] - increments[0]) * displacements[c]
        /\ res_norm.bound =>
              \A d \in Dofs \ con :
                  F_int[d] - residual[d] = increments[lastPass.n] * forces[d]

\* C10 happens: two increments committed with a nonzero prescribed displacement
C10_Witness ==
    /\ InSolve /\ Cardinality(Committed) = 2
    /\ \E c \in con : ~(displacements[c] = 0)

====
